---------------------------- MODULE Spec2Model ----------------------------
(*************************************************************************)
(* Tic-Tac-Toe (tic_tac_toe.py, SOA_TTT.py, TTT_Client.py): the game-tree *)
(* search engine -- generate_moves, check_win, heuristic and the          *)
(* recursive minimax with alpha-beta pruning -- as a state machine.       *)
(*                                                                        *)
(* The board is the one Python list every recursive call shares; the      *)
(* recursion is an explicit stack of frames, one per active call of       *)
(* minimax, each holding that call's locals.                              *)
(*************************************************************************)
EXTENDS Integers, Sequences, FiniteSets, TLC

VARIABLES
    variant,   \* which file's minimax runs: "tic_tac_toe", "TTT_Client", "SOA_TTT"
    pc,        \* position of the caller: "input", "search", "returned", "evaluated", "over"
    board,     \* the shared 9-cell list, indices 0..8
    isX,       \* the caller's side flag handed to minimax
    stack,     \* the active calls of minimax, innermost last
    ret,       \* the (utility, move) tuple of the call that returned last
    call,      \* the arguments of the running top-level call
    pruned,    \* some loop of the running top-level call left moves unexamined
    score,     \* result of heuristic(board) in the evaluation specification
    moves,     \* result of generate_moves(board) in the evaluation specification
    player,    \* main: the human's mark in the local game, the client's own mark in TTT_Client.py
    opp,       \* main: the other mark
    input,     \* local game: the integer the human typed last
    message,        \* client: the text read last, << >> for None, <<text>> for a string
    message_stack,  \* client: the pending lines
    cont_counter,   \* client: failed pops so far
    sock,           \* client: the socket, "open" or "closed"
    sent,           \* client: the move messages sent after the handshake
    stream,         \* what the server has written and the client has not yet read
    event           \* client: the line processed last and the branch that took it

game == <<player, opp, input>>
client == <<message, message_stack, cont_counter, sock, sent, stream, event>>
rest == <<game, client>>

vars == <<variant, pc, board, isX, stack, ret, call, pruned, score, moves, rest>>

--------------------------------------------------------------------------
(* Bounds *)

MaxEmpty == 3      \* most empty cells of a board drawn as a search input
MaxDepth == 1      \* search depths 0..MaxDepth are drawn next to the callers' 100
MaxScenarioDepth == 5   \* depths 2..MaxScenarioDepth are drawn for the two scenario boards

(* Program constants *)

Inf == 1000        \* math.inf: above every score heuristic can produce (|score| <= 800)
FullDepth == 100   \* the depth every caller passes

Cells == 0..8
Marks == {"x", "o", "e"}
AllBoards == [Cells -> Marks]
EmptyBoard == [i \in Cells |-> "e"]

Empties(b) == Cardinality({i \in Cells : b[i] = "e"})

--------------------------------------------------------------------------
(* check_win(board, player): one of the 8 lines is all `player'.  The     *)
(* argument is compared with == against the cells, so a value that is no  *)
(* mark (minimax passes the bool isX) equals no cell and yields False.    *)

check_win(b, mark) ==
    \/ (b[0] = mark /\ b[1] = mark /\ b[2] = mark)
    \/ (b[3] = mark /\ b[4] = mark /\ b[5] = mark)
    \/ (b[6] = mark /\ b[7] = mark /\ b[8] = mark)
    \/ (b[0] = mark /\ b[3] = mark /\ b[6] = mark)
    \/ (b[1] = mark /\ b[4] = mark /\ b[7] = mark)
    \/ (b[2] = mark /\ b[5] = mark /\ b[8] = mark)
    \/ (b[0] = mark /\ b[4] = mark /\ b[8] = mark)
    \/ (b[6] = mark /\ b[4] = mark /\ b[2] = mark)

(* The Python bool as a value of its own: True == 'x' is False.           *)
PyBool(f) == IF f THEN "True" ELSE "False"

(* mutant: the won-board test is left out *)
generate_moves_no_win_test(b) ==
    SelectSeq(<<0, 1, 2, 3, 4, 5, 6, 7, 8>>, LAMBDA i : b[i] = "e")

(* generate_moves(board): [] on a won board, else the 'e' indices ascending *)
generate_moves(b) ==
    IF check_win(b, "x") \/ check_win(b, "o")
    THEN << >>
    ELSE SelectSeq(<<0, 1, 2, 3, 4, 5, 6, 7, 8>>, LAMBDA i : b[i] = "e")

--------------------------------------------------------------------------
(* heuristic(board) *)

line_index == << <<0, 1, 2>>, <<3, 4, 5>>, <<6, 7, 8>>,
                 <<2, 5, 8>>, <<1, 4, 7>>, <<0, 3, 6>>,
                 <<0, 4, 8>>, <<2, 4, 6>> >>

(* mutant: a completed line is not recognised *)
_3row_empty == { }

_3row == { <<"x","x","x">>, <<"o","o","o">> }
(* mutant: one of the o patterns is missing from the list *)
_2row_without_eoo == { <<"x","x","e">>, <<"e","x","x">>, <<"o","o","e">> }

_2row == { <<"x","x","e">>, <<"e","x","x">>, <<"o","o","e">>, <<"e","o","o">> }
_1row == { <<"x","e","e">>, <<"e","x","e">>, <<"e","e","x">>,
           <<"o","e","e">>, <<"e","o","e">>, <<"e","e","o">> }

(* tst_str.count('x') >= 1 *)
HasX(t) == \E k \in 1..3 : t[k] = "x"

(* the contribution of one line's 3-character string *)
line_score(t) ==
    IF t \in _3row THEN (IF HasX(t) THEN 100 ELSE -100)
    ELSE IF t \in _2row THEN (IF HasX(t) THEN 10 ELSE -10)
    ELSE IF t \in _1row THEN (IF HasX(t) THEN 1 ELSE -1)
    ELSE 0

tst_str(b, line) == <<b[line[1]], b[line[2]], b[line[3]]>>

RECURSIVE SumLines(_, _)
SumLines(b, n) ==
    IF n = 0 THEN 0
    ELSE SumLines(b, n - 1) + line_score(tst_str(b, line_index[n]))

heuristic(b) == SumLines(b, Len(line_index))

--------------------------------------------------------------------------
(* minimax(board, depth, alpha, beta, isX): the pieces of one call *)

HasMoveListCheck(v) == v \in {"tic_tac_toe", "TTT_Client"}

(* player = 'x' if isX else 'o' *)
player_of(f) == IF f THEN "x" ELSE "o"

(* utility = -inf if isX else inf *)
initial_utility(f) == IF f THEN -Inf ELSE Inf

(* mutant: the empty move list is not an early return *)
is_cutoff_no_move_list(v, b, depth, move_list, f) ==
    \/ depth = 0
    \/ b[0] = PyBool(f)

(* the early return: `depth == 0 or not move_list or check_win(board, isX)' *)
(* in tic_tac_toe.py and TTT_Client.py, `depth == 0 or check_win(board,    *)
(* isX)' in SOA_TTT.py                                                      *)
is_cutoff(v, b, depth, move_list, f) ==
    \/ depth = 0
    \/ (HasMoveListCheck(v) /\ move_list = << >>)
    \/ check_win(b, PyBool(f))

(* board[move] = player *)
place(b, move, mark) == [b EXCEPT ![move] = mark]

(* mutant: the hypothetical mark is left on the board *)
undo_missing(b, move) == b

(* board[move] = 'e' *)
undo(b, move) == [b EXCEPT ![move] = "e"]

(* mutant: a later move of equal utility replaces the kept one *)
improves_or_equal(f, test_utility, utility) ==
    IF f THEN test_utility >= utility ELSE test_utility <= utility

(* mutant: the minimizer's comparison is used for both sides *)
improves_always_less(f, test_utility, utility) == test_utility < utility

(* `test_utility > utility' for the maximizer, `<' for the minimizer *)
improves(f, test_utility, utility) ==
    IF f THEN test_utility > utility ELSE test_utility < utility

Max(a, b) == IF a >= b THEN a ELSE b
Min(a, b) == IF a <= b THEN a ELSE b

(* if(alpha >= beta): break *)
cuts(alpha, beta) == alpha >= beta

(* the locals of a call on entry; `entry' remembers the board the call got *)
new_frame(b, depth, alpha, beta, f) ==
    [ depth     |-> depth,
      alpha     |-> alpha,
      beta      |-> beta,
      isX       |-> f,
      move_list |-> generate_moves(b),
      idx       |-> 1,
      best_move |-> -1,
      utility   |-> initial_utility(f),
      at        |-> "entry",
      broke     |-> FALSE,
      entry     |-> b ]

Top == stack[Len(stack)]
Pop == SubSeq(stack, 1, Len(stack) - 1)
SetTop(fr) == [stack EXCEPT ![Len(stack)] = fr]

Searching == pc = "search" /\ stack # << >>

(* the call at the top of the stack has a next candidate move to try *)
HasNext(fr) == ~fr.broke /\ fr.idx <= Len(fr.move_list)

--------------------------------------------------------------------------
(* Steps of the recursion *)

(* the early return of the innermost call: (heuristic(board), best_move) *)
Cutoff ==
    /\ Searching
    /\ Top.at = "entry"
    /\ is_cutoff(variant, board, Top.depth, Top.move_list, Top.isX)
    /\ ret' = [utility |-> heuristic(board), move |-> Top.best_move]
    /\ stack' = Pop
    /\ UNCHANGED <<variant, pc, board, isX, call, pruned, score, moves, rest>>

(* one pass of `for move in move_list' up to the recursive call: the mark *)
(* is written into the shared board and minimax is entered one level down *)
Descend ==
    /\ Searching
    /\ \/ Top.at = "entry" /\ ~is_cutoff(variant, board, Top.depth, Top.move_list, Top.isX)
       \/ Top.at = "loop"
    /\ HasNext(Top)
    /\ LET fr == Top
           move == fr.move_list[fr.idx]
           b2 == place(board, move, player_of(fr.isX))
       IN /\ board' = b2
          /\ stack' = Append(SetTop([fr EXCEPT !.at = "wait"]),
                             new_frame(b2, fr.depth - 1, fr.alpha, fr.beta, ~fr.isX))
    /\ UNCHANGED <<variant, pc, isX, ret, call, pruned, score, moves, rest>>

(* the recursive call has returned: undo the mark, keep the better move,  *)
(* tighten alpha or beta, and decide whether the loop breaks               *)
Resume ==
    /\ Searching
    /\ Top.at = "wait"
    /\ LET fr == Top
           move == fr.move_list[fr.idx]
           test_utility == ret.utility
           better == improves(fr.isX, test_utility, fr.utility)
           utility == IF better THEN test_utility ELSE fr.utility
           best_move == IF better THEN move ELSE fr.best_move
           alpha == IF fr.isX THEN Max(utility, fr.alpha) ELSE fr.alpha
           beta == IF fr.isX THEN fr.beta ELSE Min(utility, fr.beta)
           brk == cuts(alpha, beta)
       IN /\ board' = undo(board, move)
          /\ stack' = SetTop([fr EXCEPT !.at = "loop",
                                        !.idx = fr.idx + 1,
                                        !.utility = utility,
                                        !.best_move = best_move,
                                        !.alpha = alpha,
                                        !.beta = beta,
                                        !.broke = brk])
          /\ pruned' = (pruned \/ (brk /\ fr.idx < Len(fr.move_list)))
    /\ UNCHANGED <<variant, pc, isX, ret, call, score, moves, rest>>

(* the loop is over (exhausted, broken, or never entered): return         *)
(* (utility, best_move)                                                    *)
Return ==
    /\ Searching
    /\ \/ Top.at = "loop"
       \/ Top.at = "entry" /\ ~is_cutoff(variant, board, Top.depth, Top.move_list, Top.isX)
    /\ ~HasNext(Top)
    /\ ret' = [utility |-> Top.utility, move |-> Top.best_move]
    /\ stack' = Pop
    /\ UNCHANGED <<variant, pc, board, isX, call, pruned, score, moves, rest>>

Step == Cutoff \/ Descend \/ Resume \/ Return

--------------------------------------------------------------------------
(* The caller of the search *)

NoRet == [utility |-> 0, move |-> -1]
NoCall == [board |-> EmptyBoard, depth |-> 0, alpha |-> 0, beta |-> 0, isX |-> FALSE]

(* minimax(board, depth, alpha, beta, isX) is called from outside *)
TopCall(depth, alpha, beta) ==
    /\ pc = "input"
    /\ pc' = "search"
    /\ stack' = << new_frame(board, depth, alpha, beta, isX) >>
    /\ call' = [board |-> board, depth |-> depth, alpha |-> alpha, beta |-> beta, isX |-> isX]
    /\ pruned' = FALSE
    /\ UNCHANGED <<variant, board, isX, ret, score, moves, rest>>

(* the outermost call has returned to its caller *)
TopReturn ==
    /\ pc = "search"
    /\ stack = << >>
    /\ pc' = "returned"
    /\ UNCHANGED <<variant, board, isX, stack, ret, call, pruned, score, moves, rest>>

(* list indexing as Python does it: a negative index counts from the end *)
py_index(m) == IF m < 0 THEN m + 9 ELSE m

(* no game is played: main's variables keep these values *)
NoGame == player = "x" /\ opp = "o" /\ input = 0

NoEvent == [tag |-> "none", line |-> << >>]

(* no connection: the client's variables keep these values *)
NoClient ==
    /\ message = << >>
    /\ message_stack = << >>
    /\ cont_counter = 0
    /\ sock = "closed"
    /\ sent = << >>
    /\ stream = << >>
    /\ event = NoEvent

--------------------------------------------------------------------------
(* Self-play: minimax chooses every move, alternately for the two sides,  *)
(* and each chosen move is committed to the board.                         *)

InitSelfPlay ==
    /\ variant \in {"tic_tac_toe", "TTT_Client"}
    /\ pc = "input"
    /\ board = EmptyBoard
    /\ isX \in BOOLEAN
    /\ stack = << >>
    /\ ret = NoRet
    /\ call = NoCall
    /\ pruned = FALSE
    /\ score = 0
    /\ moves = << >>
    /\ NoGame
    /\ NoClient

(* move = minimax(board, 100, -inf, inf, isX)[1] *)
SelfPlayCall ==
    /\ generate_moves(board) # << >>
    /\ TopCall(FullDepth, -Inf, Inf)

(* board[move] = mark of the side that searched; the other side is next *)
Commit ==
    /\ pc = "returned"
    /\ board' = place(board, py_index(ret.move), player_of(isX))
    /\ isX' = ~isX
    /\ pc' = "input"
    /\ UNCHANGED <<variant, stack, ret, call, pruned, score, moves, rest>>

(* no legal move is left: the game is over *)
GameEnd ==
    /\ pc = "input"
    /\ generate_moves(board) = << >>
    /\ pc' = "over"
    /\ UNCHANGED <<variant, board, isX, stack, ret, call, pruned, score, moves, rest>>

NextSelfPlay == SelfPlayCall \/ Step \/ TopReturn \/ Commit \/ GameEnd

SpecSelfPlay == InitSelfPlay /\ [][NextSelfPlay]_vars

--------------------------------------------------------------------------
(* Boards, described without the program's functions *)

Lines == { {0,1,2}, {3,4,5}, {6,7,8}, {0,3,6}, {1,4,7}, {2,5,8}, {0,4,8}, {2,4,6} }

Fills(b, mark) == \E l \in Lines : \A i \in l : b[i] = mark
NoWinner(b) == ~Fills(b, "x") /\ ~Fills(b, "o")
Count(b, mark) == Cardinality({i \in Cells : b[i] = mark})

(* a board some legal alternating play from the empty board reaches *)
LegalPlay(b) ==
    /\ Count(b, "x") - Count(b, "o") \in {-1, 0, 1}
    /\ ~(Fills(b, "x") /\ Fills(b, "o"))
    /\ Fills(b, "x") => Count(b, "x") >= Count(b, "o")
    /\ Fills(b, "o") => Count(b, "o") >= Count(b, "x")

--------------------------------------------------------------------------
(* One search of a drawn position: the board and the side are drawn in    *)
(* Init, the depth and the window when the call is made.                   *)

SearchBoards == {b \in AllBoards : Empties(b) <= MaxEmpty}
Depths == (0..MaxDepth) \cup {FullDepth}
LegalBoards == {b \in SearchBoards : LegalPlay(b)}

InitInput(variants, boards) ==
    /\ variant \in variants
    /\ pc = "input"
    /\ board \in boards
    /\ isX \in BOOLEAN
    /\ stack = << >>
    /\ ret = NoRet
    /\ call = NoCall
    /\ pruned = FALSE
    /\ score = 0
    /\ moves = << >>
    /\ NoGame
    /\ NoClient

InitSearch == InitInput({"tic_tac_toe", "TTT_Client", "SOA_TTT"}, SearchBoards)

(* minimax(board, depth, -inf, inf, isX) *)
SearchCall == \E d \in Depths : TopCall(d, -Inf, Inf)

NextSearch == SearchCall \/ Step \/ TopReturn

SpecSearch == InitSearch /\ [][NextSearch]_vars

(* choose_move(board, depth, isX) of SOA_TTT.py on a board of legal play: *)
(* move = minimax(board, depth, -inf, inf, isX)                            *)
InitSearchSOA == InitInput({"SOA_TTT"}, LegalBoards)

choose_move == SearchCall

NextSearchSOA == choose_move \/ Step \/ TopReturn

SpecSearchSOA == InitSearchSOA /\ [][NextSearchSOA]_vars

--------------------------------------------------------------------------
(* The two end-to-end scenario boards, X to move *)

BoardBlock == [i \in Cells |-> <<"o","o","e","x","x","e","e","e","e">>[i + 1]]
BoardWin   == [i \in Cells |-> <<"x","x","e","e","o","o","e","e","e">>[i + 1]]

ScenarioDepths == (2..MaxScenarioDepth) \cup {FullDepth}

InitScenario ==
    /\ InitInput({"tic_tac_toe", "TTT_Client"}, {BoardBlock, BoardWin})
    /\ isX = TRUE

ScenarioCall == \E d \in ScenarioDepths : TopCall(d, -Inf, Inf)

NextScenario == ScenarioCall \/ Step \/ TopReturn

SpecScenario == InitScenario /\ [][NextScenario]_vars

--------------------------------------------------------------------------
(* The two pure functions of a board, applied to every board over x, o, e *)

InitEval == InitInput({"tic_tac_toe"}, AllBoards) /\ isX = TRUE

Evaluate ==
    /\ pc = "input"
    /\ score' = heuristic(board)
    /\ moves' = generate_moves(board)
    /\ pc' = "evaluated"
    /\ UNCHANGED <<variant, board, isX, stack, ret, call, pruned, rest>>

NextEval == Evaluate

SpecEval == InitEval /\ [][NextEval]_vars

--------------------------------------------------------------------------
(* The local game of tic_tac_toe.py and SOA_TTT.py: main() from the loop  *)
(* `while no win and an empty cell is left' on.  The human typed x or o   *)
(* before; with o the computer has opened on cell 4.                       *)

MaxInput == 11     \* the human types an integer in -MaxInput..MaxInput

Inputs == (-MaxInput)..MaxInput

(* 'e' in ''.join(board) *)
has_empty(b) == \E i \in Cells : b[i] = "e"

(* the loop condition *)
game_on(b) == ~check_win(b, player) /\ ~check_win(b, opp) /\ has_empty(b)

(* board[move] raises IndexError outside -9..8 *)
in_list(m) == m >= -9 /\ m <= 8

(* board[move] == 'e' and move in range(0, 9) *)
is_legal(b, m) == b[py_index(m)] = "e" /\ m \in 0..8

(* mutant: tic_tac_toe.py passes `not isX' as well *)
search_side_negated(v, f) == ~f

(* the side flag main passes to minimax: isX in tic_tac_toe.py, *)
(* `not isX' in SOA_TTT.py                                       *)
search_side(v, f) == IF v = "SOA_TTT" THEN ~f ELSE f

(* tic_tac_toe.py searches only `if 'e' in board'; SOA_TTT.py always *)
searches_after(v, b) == v = "SOA_TTT" \/ has_empty(b)

InitGame ==
    /\ variant \in {"tic_tac_toe", "SOA_TTT"}
    /\ pc = "prompt"
    /\ player \in {"x", "o"}
    /\ opp = (IF player = "x" THEN "o" ELSE "x")
    /\ isX = (player = "o")
    /\ board = (IF player = "x" THEN EmptyBoard ELSE place(EmptyBoard, 4, "x"))
    /\ input = 0
    /\ NoClient
    /\ stack = << >>
    /\ ret = NoRet
    /\ call = NoCall
    /\ pruned = FALSE
    /\ score = 0
    /\ moves = << >>

(* the typed integer names a free cell: the human's mark is placed and,   *)
(* when the file's condition allows, minimax is entered for the reply     *)
MoveAccepted ==
    /\ pc = "prompt"
    /\ game_on(board)
    /\ \E n \in Inputs :
        LET m == n - 1
            b2 == place(board, m, player)
            f == search_side(variant, isX)
        IN /\ in_list(m)
           /\ is_legal(board, m)
           /\ input' = n
           /\ board' = b2
           /\ IF searches_after(variant, b2)
              THEN /\ pc' = "search"
                   /\ stack' = << new_frame(b2, FullDepth, -Inf, Inf, f) >>
                   /\ call' = [board |-> b2, depth |-> FullDepth,
                               alpha |-> -Inf, beta |-> Inf, isX |-> f]
                   /\ pruned' = FALSE
              ELSE /\ pc' = "prompt"
                   /\ UNCHANGED <<stack, call, pruned>>
    /\ UNCHANGED <<variant, isX, ret, score, moves, player, opp, client>>

(* the typed integer names a taken cell or none: "Invalid move, try again" *)
MoveRejected ==
    /\ pc = "prompt"
    /\ game_on(board)
    /\ \E n \in Inputs :
        /\ in_list(n - 1)
        /\ ~is_legal(board, n - 1)
        /\ input' = n
    /\ UNCHANGED <<variant, pc, board, isX, stack, ret, call, pruned, score, moves, player, opp, client>>

(* board[move] with move outside -9..8: IndexError, nobody catches it *)
MoveIndexError ==
    /\ pc = "prompt"
    /\ game_on(board)
    /\ \E n \in Inputs :
        /\ ~in_list(n - 1)
        /\ input' = n
    /\ pc' = "crashed"
    /\ UNCHANGED <<variant, board, isX, stack, ret, call, pruned, score, moves, player, opp, client>>

(* int(move) raises ValueError: "invalid input", exit() *)
InputNotInteger ==
    /\ pc = "prompt"
    /\ game_on(board)
    /\ pc' = "exit"
    /\ UNCHANGED <<variant, board, isX, stack, ret, call, pruned, score, moves, rest>>

(* board[move] = opp with the move minimax returned *)
Reply ==
    /\ pc = "returned"
    /\ board' = place(board, py_index(ret.move), opp)
    /\ pc' = "prompt"
    /\ UNCHANGED <<variant, isX, stack, ret, call, pruned, score, moves, rest>>

(* the loop condition fails: the result is announced *)
GameOver ==
    /\ pc = "prompt"
    /\ ~game_on(board)
    /\ pc' = "over"
    /\ UNCHANGED <<variant, board, isX, stack, ret, call, pruned, score, moves, rest>>

NextGame ==
    \/ MoveAccepted \/ MoveRejected \/ MoveIndexError \/ InputNotInteger
    \/ Step \/ TopReturn \/ Reply \/ GameOver

SpecGame == InitGame /\ [][NextGame]_vars

--------------------------------------------------------------------------
(* The protocol client of TTT_Client.py: main() after the handshake and   *)
(* s.send(player).  A Python string is the sequence of its characters.    *)

MaxStream == 18    \* the server writes at most this many characters
MaxCont == 5       \* cont_counter is followed up to this value

Upper == <<"A", "B", "C", "D", "E", "F", "G", "H", "I", "J", "K", "L", "M", "N", "O", "P", "Q", "R", "S", "T", "U", "V", "W", "X", "Y", "Z">>
Lower == <<"a", "b", "c", "d", "e", "f", "g", "h", "i", "j", "k", "l", "m", "n", "o", "p", "q", "r", "s", "t", "u", "v", "w", "x", "y", "z">>
Digits == <<"0", "1", "2", "3", "4", "5", "6", "7", "8", "9">>

(* str.lower() *)
lower_char(c) ==
    IF \E k \in 1..26 : Upper[k] = c
    THEN Lower[CHOOSE k \in 1..26 : Upper[k] = c]
    ELSE c
lower(line) == [k \in 1..Len(line) |-> lower_char(line[k])]

(* int(c) of one character succeeds on a decimal digit, else ValueError *)
is_digit(c) == \E k \in 1..10 : Digits[k] = c
int(c) == (CHOOSE k \in 1..10 : Digits[k] = c) - 1

(* str(n) for n in 0..9 *)
str(n) == << Digits[n + 1] >>

(* sub in line *)
contains(sub, line) ==
    \E k \in 1..(Len(line) - Len(sub) + 1) : SubSeq(line, k, k + Len(sub) - 1) = sub

(* text.split('\n'): the pieces between the newlines, empty ones included *)
RECURSIVE split(_)
split(text) ==
    IF \E k \in 1..Len(text) : text[k] = "\n"
    THEN LET k == CHOOSE j \in 1..Len(text) :
                      text[j] = "\n" /\ \A h \in 1..(j - 1) : text[h] # "\n"
         IN << SubSeq(text, 1, k - 1) >> \o split(SubSeq(text, k + 1, Len(text)))
    ELSE << text >>

kw_Tie == <<"T", "i", "e">>
kw_Client == <<"C", "l", "i", "e", "n", "t">>
kw_Server == <<"S", "e", "r", "v", "e", "r">>
kw_Win == <<"W", "i", "n">>
kw_Disconnecting == <<"D", "i", "s", "c", "o", "n", "n", "e", "c", "t", "i", "n", "g">>
kw_Error == <<"E", "r", "r", "o", "r">>

(* mutant: a line of length 9 is a board even when it contains 'Tie' *)
classify_without_tie_test(line) ==
    IF Len(line) = 9 THEN "BoardSnapshot"
    ELSE IF contains(kw_Client, line) THEN "RequestClientMove"
    ELSE IF contains(kw_Server, line) THEN "ServerMoved"
    ELSE IF contains(kw_Win, line) \/ contains(kw_Tie, line) THEN "GameOver"
    ELSE IF contains(kw_Disconnecting, line) THEN "Disconnect"
    ELSE IF contains(kw_Error, line) THEN "ProtocolError"
    ELSE "Unrecognized"

(* the if/elif chain of the state check: the branch that takes the line *)
classify(line) ==
    IF Len(line) = 9 /\ ~contains(kw_Tie, line) THEN "BoardSnapshot"
    ELSE IF contains(kw_Client, line) THEN "RequestClientMove"
    ELSE IF contains(kw_Server, line) THEN "ServerMoved"
    ELSE IF contains(kw_Win, line) \/ contains(kw_Tie, line) THEN "GameOver"
    ELSE IF contains(kw_Disconnecting, line) THEN "Disconnect"
    ELSE IF contains(kw_Error, line) THEN "ProtocolError"
    ELSE "Unrecognized"

(* board = list(message_line.lower()), then '1'..'9' become 'e' *)
snapshot(line) ==
    [i \in Cells |->
        LET c == lower(line)[i + 1]
        IN IF is_digit(c) /\ c # "0" THEN "e" ELSE c]

(* message_stack.pop(0) until a line other than '' comes: what is left of *)
(* the stack when the pops stop, << >> when they run into IndexError      *)
RECURSIVE drop_empty(_)
drop_empty(lines) ==
    IF lines = << >> THEN << >>
    ELSE IF Head(lines) = << >> THEN drop_empty(Tail(lines))
    ELSE lines

(* the lines a server writes, each followed by a newline *)
ServerLines == {
    <<"1", "2", "3", "4", "5", "6", "x", "8", "o">>,
    <<"X", "X", "X", "O", "O", "6", "7", "8", "9">>,
    <<"C", "l", "i", "e", "n", "t">>,
    <<"S", "e", "r", "v", "e", "r", " ", "m", "o", "v", "e", "d", " ", "t", "o", " ", "5">>,
    <<"S", "e", "r", "v", "e", "r", " ", "m", "o", "v", "e", "d">>,
    <<"Y", "o", "u", " ", "W", "i", "n">>,
    <<"T", "i", "e", " ", "g", "a", "m", "e", "!">>,
    <<"D", "i", "s", "c", "o", "n", "n", "e", "c", "t", "i", "n", "g">>,
    <<"E", "r", "r", "o", "r">>,
    <<"g", "a", "r", "b", "a", "g", "e">>,
    <<"G", "a", "m", "e", " ", "o", "v", "e", "r">> }

RECURSIVE Streams(_)
Streams(n) ==
    {<< >>} \cup
    UNION { { (l \o << "\n" >>) \o s : s \in Streams(n - Len(l) - 1) } :
            l \in { x \in ServerLines : Len(x) + 1 <= n } }

RecvSize == 64    \* s.recv(64)

InitClient ==
    /\ variant = "TTT_Client"
    /\ pc = "recv"
    /\ player \in {"x", "o"}
    /\ opp = (IF player = "x" THEN "o" ELSE "x")
    /\ isX = (player = "x")
    /\ board = EmptyBoard
    /\ input = 0
    /\ message = << << " " >> >>
    /\ message_stack = << >>
    /\ cont_counter = 0
    /\ sock = "open"
    /\ sent = << >>
    /\ stream \in Streams(MaxStream)
    /\ event = NoEvent
    /\ stack = << >>
    /\ ret = NoRet
    /\ call = NoCall
    /\ pruned = FALSE
    /\ score = 0
    /\ moves = << >>

(* `if message is not None: message_stack.extend(message.split('\n'))' *)
extended(msg) ==
    IF msg = << >> THEN message_stack ELSE message_stack \o split(msg[1])

(* the stack is empty and s.recv(64) returns what has arrived: some first  *)
(* part of the server's output, cut anywhere                               *)
RecvData ==
    /\ pc = "recv"
    /\ message_stack = << >>
    /\ \E k \in 1..Min(RecvSize, Len(stream)) :
        /\ message_stack' = extended(<< SubSeq(stream, 1, k) >>)
        /\ stream' = SubSeq(stream, k + 1, Len(stream))
    /\ message' = << >>
    /\ pc' = "pop"
    /\ UNCHANGED <<variant, board, isX, stack, ret, call, pruned, score, moves,
                   game, cont_counter, sock, sent, event>>

(* the stack is empty and s.recv(64) raises socket.timeout: `pass', and    *)
(* `message' is what it was                                                *)
RecvTimeout ==
    /\ pc = "recv"
    /\ message_stack = << >>
    /\ message_stack' = extended(message)
    /\ message' = << >>
    /\ pc' = "pop"
    /\ UNCHANGED <<variant, board, isX, stack, ret, call, pruned, score, moves,
                   game, cont_counter, sock, sent, stream, event>>

(* the stack holds lines: nothing is read *)
NoRecv ==
    /\ pc = "recv"
    /\ message_stack # << >>
    /\ message_stack' = extended(message)
    /\ message' = << >>
    /\ pc' = "pop"
    /\ UNCHANGED <<variant, board, isX, stack, ret, call, pruned, score, moves,
                   game, cont_counter, sock, sent, stream, event>>

(* message_line = 'No longer receiving messages' *)
no_longer == <<"N", "o", " ", "l", "o", "n", "g", "e", "r", " ", "r", "e", "c", "e", "i", "v", "i", "n", "g", " ", "m", "e", "s", "s", "a", "g", "e", "s">>

(* `except IndexError': no line other than '' was on the stack; past four  *)
(* failures message_line is given a text no branch sees, the count goes up *)
(* and `continue' starts the next iteration                                *)
Starve ==
    /\ pc = "pop"
    /\ drop_empty(message_stack) = << >>
    /\ message_stack' = << >>
    /\ event' = (IF cont_counter > 4 THEN [tag |-> "none", line |-> no_longer] ELSE event)
    /\ cont_counter' = (IF cont_counter < MaxCont THEN cont_counter + 1 ELSE cont_counter)
    /\ pc' = "recv"
    /\ UNCHANGED <<variant, board, isX, stack, ret, call, pruned, score, moves,
                   game, message, sock, sent, stream>>

(* a line was popped and the state check takes it to the branch `tag' *)
Popped(tag) ==
    /\ pc = "pop"
    /\ drop_empty(message_stack) # << >>
    /\ classify(Head(drop_empty(message_stack))) = tag
    /\ message_stack' = Tail(drop_empty(message_stack))
    /\ event' = [tag |-> tag, line |-> Head(drop_empty(message_stack))]

(* Format Print 9CHRBOARD *)
BoardSnapshot ==
    /\ Popped("BoardSnapshot")
    /\ board' = snapshot(Head(drop_empty(message_stack)))
    /\ pc' = "recv"
    /\ UNCHANGED <<variant, isX, stack, ret, call, pruned, score, moves,
                   game, message, cont_counter, sock, sent, stream>>

(* ClientMove: cell 4 on the empty board and the move is sent at once,    *)
(* else minimax(board, 100, -inf, inf, isX) is entered                     *)
ClientMove ==
    /\ Popped("RequestClientMove")
    /\ IF \A i \in Cells : board[i] = "e"
       THEN /\ board' = place(board, 4, player)
            /\ sent' = Append(sent, str(4 + 1))
            /\ pc' = "recv"
            /\ UNCHANGED <<stack, call, pruned>>
       ELSE /\ pc' = "search"
            /\ stack' = << new_frame(board, FullDepth, -Inf, Inf, isX) >>
            /\ call' = [board |-> board, depth |-> FullDepth,
                        alpha |-> -Inf, beta |-> Inf, isX |-> isX]
            /\ pruned' = FALSE
            /\ UNCHANGED <<board, sent>>
    /\ UNCHANGED <<variant, isX, ret, score, moves,
                   game, message, cont_counter, sock, stream>>

(* board[move] = player; s.send(str(move + 1)) with the move minimax returned *)
ClientSend ==
    /\ pc = "returned"
    /\ board' = place(board, py_index(ret.move), player)
    /\ sent' = Append(sent, str(ret.move + 1))
    /\ pc' = "recv"
    /\ UNCHANGED <<variant, isX, stack, ret, call, pruned, score, moves,
                   game, message, message_stack, cont_counter, sock, stream, event>>

(* SvrMove: pos = int(message_line[-1]); board[pos - 1] = opp.  int raises *)
(* ValueError on a character that is no digit, and nobody catches it       *)
ServerMoved ==
    /\ Popped("ServerMoved")
    /\ LET line == Head(drop_empty(message_stack))
           last == line[Len(line)]
       IN IF is_digit(last)
          THEN /\ board' = place(board, py_index(int(last) - 1), opp)
               /\ pc' = "recv"
          ELSE /\ pc' = "crashed"
               /\ UNCHANGED board
    /\ UNCHANGED <<variant, isX, stack, ret, call, pruned, score, moves,
                   game, message, cont_counter, sock, sent, stream>>

(* Winner: the line is printed *)
GameOverLine ==
    /\ Popped("GameOver")
    /\ pc' = "recv"
    /\ UNCHANGED <<variant, board, isX, stack, ret, call, pruned, score, moves,
                   game, message, cont_counter, sock, sent, stream>>

(* Final: end = True, the loop is left and s.close() follows it *)
Disconnect ==
    /\ Popped("Disconnect")
    /\ sock' = "closed"
    /\ pc' = "done"
    /\ UNCHANGED <<variant, board, isX, stack, ret, call, pruned, score, moves,
                   game, message, cont_counter, sent, stream>>

(* ERROR: s.close(); exit() *)
ProtocolError ==
    /\ Popped("ProtocolError")
    /\ sock' = "closed"
    /\ pc' = "exit"
    /\ UNCHANGED <<variant, board, isX, stack, ret, call, pruned, score, moves,
                   game, message, cont_counter, sent, stream>>

(* CLIENT ERROR: s.close(); exit() *)
Unrecognized ==
    /\ Popped("Unrecognized")
    /\ sock' = "closed"
    /\ pc' = "exit"
    /\ UNCHANGED <<variant, board, isX, stack, ret, call, pruned, score, moves,
                   game, message, cont_counter, sent, stream>>

NextClient ==
    \/ RecvData \/ RecvTimeout \/ NoRecv \/ Starve
    \/ BoardSnapshot \/ ClientMove \/ Step \/ TopReturn \/ ClientSend
    \/ ServerMoved \/ GameOverLine \/ Disconnect \/ ProtocolError \/ Unrecognized

SpecClient == InitClient /\ [][NextClient]_vars

--------------------------------------------------------------------------
(* Vocabulary of the properties *)

Finite(u) == u > -Inf /\ u < Inf

(* a call of minimax returns in this step *)
Returns == Len(stack') < Len(stack)

FullWindow == call.alpha = -Inf /\ call.beta = Inf

--------------------------------------------------------------------------
(* C1: in self-play from the empty board, with minimax at depth 100 and   *)
(* the full window choosing every move for X and O in turn, no position   *)
(* of the game has three equal marks in a line, and the game ends with a  *)
(* full board and no winner.                                               *)
C1_SelfPlayDraw ==
    /\ pc \in {"input", "returned", "over"} => NoWinner(board)
    /\ pc = "over" => Empties(board) = 0 /\ NoWinner(board)

C1_Witness == pc = "over" /\ Empties(board) = 0 /\ call.depth = FullDepth

(* C2: every call of minimax, at any depth, window and side, returns with *)
(* the board cell for cell as it was when the call was entered.            *)
C2_BoardRestored ==
    [][Returns => board' = Top.entry]_vars

C2_Witness ==
    /\ pc = "returned"
    /\ pruned
    /\ call.depth > 0
    /\ Empties(call.board) > 1
    /\ board = call.board


(* C3 reference: minimax over the same move order with no cut-off; the    *)
(* kept move is the first, in ascending index order, that reaches the     *)
(* best utility.                                                           *)
RECURSIVE exhaustive(_, _, _, _), child_values(_, _, _, _, _, _)
exhaustive(v, b, depth, f) ==
    LET ml == generate_moves(b)
    IN IF is_cutoff(v, b, depth, ml, f)
       THEN [utility |-> heuristic(b), move |-> -1]
       ELSE LET val == child_values(v, b, depth, f, ml, 1)
                best == CHOOSE u \in {val[k] : k \in 1..Len(ml)} :
                          \A k \in 1..Len(ml) : IF f THEN val[k] <= u ELSE val[k] >= u
                first == CHOOSE k \in 1..Len(ml) :
                          val[k] = best /\ \A j \in 1..(k - 1) : val[j] # best
            IN [utility |-> best, move |-> ml[first]]

(* the utilities of the positions after the moves ml[k], ml[k+1], ... *)
child_values(v, b, depth, f, ml, k) ==
    IF k > Len(ml) THEN << >>
    ELSE << exhaustive(v, place(b, ml[k], player_of(f)), depth - 1, ~f).utility >>
         \o child_values(v, b, depth, f, ml, k + 1)

(* C3: on a board of legal alternating play, for either side and every    *)
(* depth, minimax (tic_tac_toe.py, and its copy in TTT_Client.py) with    *)
(* the full window returns the (utility, move) pair of the exhaustive     *)
(* search without cut-off.                                                 *)
C3_PruningSameResult ==
    (pc = "returned" /\ FullWindow /\ LegalPlay(call.board) /\ HasMoveListCheck(variant))
        => ret = exhaustive(variant, call.board, call.depth, call.isX)

C3_Witness ==
    /\ pc = "returned"
    /\ variant = "tic_tac_toe"
    /\ FullWindow
    /\ LegalPlay(call.board)
    /\ pruned
    /\ call.depth = FullDepth
    /\ ret = exhaustive(variant, call.board, call.depth, call.isX)

(* C4: on o o e / x x e / e e e with X to move, minimax with the full     *)
(* window returns move 5 for every depth >= 2.                             *)
C4_BlockScenarioMove5 ==
    (pc = "returned" /\ call.board = BoardBlock /\ call.isX /\ FullWindow /\ call.depth >= 2)
        => ret.move = 5

(* C5: on x x e / e o o / e e e with X to move, minimax with the full     *)
(* window returns move 2, the cell completing the top row, for every      *)
(* depth >= 2.                                                             *)
C5_WinScenarioMove2 ==
    (pc = "returned" /\ call.board = BoardWin /\ call.isX /\ FullWindow /\ call.depth >= 2)
        => ret.move = 2

C5_Witness ==
    /\ pc = "returned"
    /\ call.board = BoardWin
    /\ call.isX
    /\ call.depth = FullDepth
    /\ ret.move = 2
    /\ Fills(place(board, ret.move, "x"), "x")

(* C6: generate_moves gives exactly the 'e' indices in ascending order    *)
(* when neither mark fills a line, and the empty list when one does.      *)
C6_GenerateMoves ==
    pc = "evaluated" =>
        IF NoWinner(board)
        THEN /\ Len(moves) = Empties(board)
             /\ \A k \in 1..Len(moves) : moves[k] \in Cells /\ board[moves[k]] = "e"
             /\ \A j, k \in 1..Len(moves) : j < k => moves[j] < moves[k]
        ELSE moves = << >>

C6_WitnessOpen == pc = "evaluated" /\ NoWinner(board) /\ Len(moves) = 4

C6_Witness ==
    /\ pc = "evaluated"
    /\ ~NoWinner(board)
    /\ Empties(board) > 0
    /\ moves = << >>

(* C7 reference: the score of one line by counting its marks *)
LineValue(b, l) ==
    LET nx == Cardinality({i \in l : b[i] = "x"})
        no == Cardinality({i \in l : b[i] = "o"})
        ne == Cardinality({i \in l : b[i] = "e"})
    IN IF nx = 3 THEN 100 ELSE IF no = 3 THEN -100
       ELSE IF nx = 2 /\ ne = 1 THEN 10 ELSE IF no = 2 /\ ne = 1 THEN -10
       ELSE IF nx = 1 /\ ne = 2 THEN 1 ELSE IF no = 1 /\ ne = 2 THEN -1
       ELSE 0

RECURSIVE SumOver(_, _)
SumOver(b, ls) ==
    IF ls = {} THEN 0
    ELSE LET l == CHOOSE x \in ls : TRUE
         IN LineValue(b, l) + SumOver(b, ls \ {l})

(* C7: heuristic is the sum over the 8 lines of +-100 for three equal     *)
(* marks, +-10 for two equal marks and an empty cell in any arrangement,  *)
(* +-1 for one mark and two empty cells, 0 otherwise.                      *)
C7_HeuristicByCounts ==
    pc = "evaluated" => score = SumOver(board, Lines)

(* x and o exchanged *)
swap_marks(b) ==
    [i \in Cells |-> IF b[i] = "x" THEN "o" ELSE IF b[i] = "o" THEN "x" ELSE "e"]

(* C8: the heuristic of the board with x and o exchanged is the negation  *)
(* of the heuristic of the board.                                          *)
C8_Antisymmetric ==
    pc = "evaluated" => heuristic(swap_marks(board)) = -score

C8_Witness ==
    /\ pc = "evaluated"
    /\ score > 0
    /\ Count(board, "x") # Count(board, "o")
    /\ heuristic(swap_marks(board)) = -score

(* C9: in tic_tac_toe.py and TTT_Client.py, every call reached from a     *)
(* top-level call with the full window returns a finite utility, and when *)
(* its depth is > 0 and its board has a legal move, a move that is the    *)
(* index of an 'e' cell of its board.                                      *)
C9_MovePresent ==
    [][(Returns /\ FullWindow /\ HasMoveListCheck(variant)) =>
          /\ Finite(ret'.utility)
          /\ (Top.depth > 0 /\ generate_moves(Top.entry) # << >>)
                => (ret'.move \in Cells /\ Top.entry[ret'.move] = "e")]_vars

C9_Witness ==
    /\ pc = "returned"
    /\ variant = "TTT_Client"
    /\ FullWindow
    /\ call.depth > 0
    /\ generate_moves(call.board) # << >>
    /\ ret.move \in Cells
    /\ call.board[ret.move] = "e"
    /\ Finite(ret.utility)

(* C10: minimax of SOA_TTT.py, called on a board with no legal move,      *)
(* returns (heuristic(board), no move) for either side and every depth.   *)
C10_TerminalReturnsHeuristic ==
    (pc = "returned" /\ variant = "SOA_TTT" /\ generate_moves(call.board) = << >>)
        => ret = [utility |-> heuristic(call.board), move |-> -1]


(* a step of the game loop itself, outside the search *)
LoopStep == pc \in {"prompt", "returned"}

(* C11: in the game loop of SOA_TTT.py no cell that holds a mark is       *)
(* overwritten or reset, and every move the computer commits goes to a    *)
(* cell that was 'e'.                                                      *)
C11_CellsWrittenOnce ==
    [][(variant = "SOA_TTT" /\ LoopStep) =>
          /\ \A i \in Cells : board[i] # "e" => board'[i] = board[i]
          /\ (pc = "returned" /\ pc' = "prompt") => board[py_index(ret.move)] = "e"]_vars

(* C12: an integer input that names a taken cell or lies outside 1..9 is  *)
(* rejected: the board is unchanged, no search starts, the game goes on   *)
(* and the human is prompted again.                                        *)
C12_BadInputRejected ==
    [][(pc = "prompt" /\ game_on(board) /\ pc' # "exit") =>
          LET n == input'
          IN (n \notin 1..9 \/ board[n - 1] # "e")
                => (board' = board /\ pc' = "prompt" /\ stack' = stack)]_vars

(* the steps of the client's loop that take a popped line to a branch *)
Taken == drop_empty(message_stack)
TakesLine == pc = "pop" /\ Taken # << >>

(* C13 reference: the rules in the order stated, the first that matches *)
RuleTags == << "BoardSnapshot", "RequestClientMove", "ServerMoved", "GameOver",
               "Disconnect", "ProtocolError", "Unrecognized" >>
matches(k, line) ==
    CASE k = 1 -> Len(line) = 9 /\ ~contains(kw_Tie, line)
      [] k = 2 -> contains(kw_Client, line)
      [] k = 3 -> contains(kw_Server, line)
      [] k = 4 -> contains(kw_Win, line) \/ contains(kw_Tie, line)
      [] k = 5 -> contains(kw_Disconnecting, line)
      [] k = 6 -> contains(kw_Error, line)
      [] k = 7 -> TRUE
first_match(line) ==
    RuleTags[CHOOSE k \in 1..7 : matches(k, line) /\ \A j \in 1..(k - 1) : ~matches(j, line)]

line_123456x8o == <<"1", "2", "3", "4", "5", "6", "x", "8", "o">>
line_Server_moved_to_5 == <<"S", "e", "r", "v", "e", "r", " ", "m", "o", "v", "e", "d", " ", "t", "o", " ", "5">>
line_garbage == <<"g", "a", "r", "b", "a", "g", "e">>
line_Tie_game == <<"T", "i", "e", " ", "g", "a", "m", "e", "!">>

(* C13: every popped line goes to the branch of the first matching rule,  *)
(* in the order snapshot, Client, Server, Win or Tie, Disconnecting,       *)
(* Error, unrecognized; '123456x8o' makes the board e e e e e e x e o,     *)
(* 'Server moved to 5' writes the opponent's mark to index 4 and nothing   *)
(* else, 'garbage' closes the socket and exits.                            *)
C13_ClassifiedInOrder ==
    [][TakesLine =>
        LET line == Head(Taken)
        IN /\ event' = [tag |-> first_match(line), line |-> line]
           /\ line = line_123456x8o =>
                  board' = [i \in Cells |-> IF i = 6 THEN "x" ELSE IF i = 8 THEN "o" ELSE "e"]
           /\ line = line_Server_moved_to_5 => board' = [board EXCEPT ![4] = opp]
           /\ line = line_garbage => (pc' = "exit" /\ sock' = "closed")]_vars

C13_Witness ==
    /\ variant = "TTT_Client"
    /\ pc = "recv"
    /\ event = [tag |-> "GameOver", line |-> line_Tie_game]

(* C14: a read that times out, in the first iteration as in any other,    *)
(* adds no line to the stack of pending lines.                             *)
C14_TimeoutAddsNoLine ==
    [][(pc = "recv" /\ message_stack = << >> /\ pc' = "pop" /\ stream' = stream)
          => message_stack' = << >>]_vars

(* C15: once more than four pops have failed, a further failed pop does   *)
(* not send the client back to read again: it leaves the loop.             *)
C15_StopsRetrying ==
    [][(pc = "pop" /\ Taken = << >> /\ cont_counter > 4) => pc' # "recv"]_vars

(* C16: every move message sent is one digit '1'..'9', the cell it names   *)
(* is 'e' on the board when it is sent, and that cell alone is then        *)
(* written, with the client's mark.                                        *)
C16_SentMoveLegal ==
    [][sent' # sent =>
        LET msg == sent'[Len(sent')]
        IN /\ Len(msg) = 1 /\ is_digit(msg[1]) /\ msg[1] # "0"
           /\ board[int(msg[1]) - 1] = "e"
           /\ board' = [board EXCEPT ![int(msg[1]) - 1] = player]]_vars

(* C17: the client never stops abnormally with the socket open. *)
C17_ClosedBeforeStop ==
    (variant = "TTT_Client" /\ pc \in {"exit", "crashed"}) => sock = "closed"

(* C18: every cell of the client's board is 'e', 'x' or 'o'. *)
C18_CellsAreMarks ==
    variant = "TTT_Client" => \A i \in Cells : board[i] \in {"e", "x", "o"}

(* C19: in tic_tac_toe.py, whichever mark the human has and whatever      *)
(* legal moves the human makes, the human never has three in a line: the  *)
(* search is never called on a board the human has won, and the game      *)
(* ends with the computer's win or a tie.                                  *)
C19_ComputerNeverLoses ==
    variant = "tic_tac_toe" =>
        /\ pc \in {"prompt", "returned", "over", "exit", "crashed"} => ~Fills(board, player)
        /\ pc = "search" => ~Fills(call.board, player)
        /\ pc = "over" => (Fills(board, opp) \/ (Empties(board) = 0 /\ NoWinner(board)))

C19_Witness ==
    /\ variant = "tic_tac_toe"
    /\ pc = "over"
    /\ player = "x"
    /\ Empties(board) = 0
    /\ NoWinner(board)

C19_WitnessWin ==
    /\ variant = "tic_tac_toe"
    /\ pc = "over"
    /\ Fills(board, opp)

(* C20: on a board of legal alternating play that ends the game, the      *)
(* heuristic is > 0 when x fills a line, < 0 when o fills a line, and 0   *)
(* when the board is full without a winner.                                *)
C20_TerminalSign ==
    (pc = "evaluated" /\ LegalPlay(board)) =>
        /\ Fills(board, "x") => score > 0
        /\ Fills(board, "o") => score < 0
        /\ (Empties(board) = 0 /\ NoWinner(board)) => score = 0

C20_Witness ==
    /\ pc = "evaluated"
    /\ LegalPlay(board)
    /\ Fills(board, "o")
    /\ Empties(board) > 0
    /\ score < 0

(* C21: however the reads cut the server's output, every line the client  *)
(* takes to a branch is a whole line the server wrote, never a piece of    *)
(* one (the ' ' left in `message' by a first read that times out aside).   *)
C21_OnlyWholeLines ==
    [][(TakesLine /\ Head(Taken) # << " " >>) => Head(Taken) \in ServerLines]_vars

(* C22: each time a computer move is committed, the isX flag the search   *)
(* was called with is True exactly when the mark written to the chosen     *)
(* cell is 'x'.                                                            *)
C22_SideMatchesMark ==
    [][(pc = "returned" /\ pc' \in {"prompt", "recv"}) =>
          (call.isX <=> board'[py_index(ret.move)] = "x")]_vars

==========================================================================
